---- MODULE Spec2Model ----
(***************************************************************************)
(* Askit backend: the recursive folder ingestion (google_drive_utils.py,   *)
(* document_processor.py), the index builder and registry (indexer.py) and *)
(* the read operations on them (indexer.py, query_engine.py).              *)
(*                                                                         *)
(* Strings that the code takes apart (canonical paths, collection names)   *)
(* are sequences of tokens: a folder id is one token, "/" is one token.    *)
(* The DocumentProcessor is taken as constructed around the caller's drive *)
(* service, as index_folder uses it.                                       *)
(***************************************************************************)
EXTENDS Integers, Sequences, FiniteSets, TLC

\* ------------------------------------------------------------------ bounds
NumFiles == 4
MaxRuns == 1
MaxPhrases == 2
MaxHits == 4

\* ------------------------------------------------------- the Drive contents
\* The folder tree of the Drive: r is the Drive root, A is in r, B is in A.
AllFolders == <<"r", "A", "B">>
Folders == {AllFolders[i] : i \in 1..Len(AllFolders)}
NoFolder == "none"
Parents(folder) ==
  CASE folder = "A" -> "r"
    [] folder = "B" -> "A"
    [] OTHER -> NoFolder

AllFiles == <<"f1", "f2", "f3", "f4", "f5", "f6">>
Files == {AllFiles[i] : i \in 1..NumFiles}
\* f1 lies in r, f2 in A, f3 in B, f4 in r, f5 in A, f6 in B.
HomeOf == <<"r", "A", "B", "r", "A", "B">>
Home(f) == HomeOf[CHOOSE i \in 1..Len(AllFiles) : AllFiles[i] = f]

\* What converting a file does: the file is not in the Drive ("absent"), it
\* converts to a Document ("text"), its download or its reader raises inside
\* process_file ("dlfail"), its reader returns no Document ("nodocs"), or its
\* record lacks the mimeType key so that process_file raises ("badmeta").
ConvKinds == {"absent", "text", "dlfail", "nodocs", "badmeta"}

Slash == "/"
Name(id) == <<"name", id>>

VARIABLES
  conv,       \* Drive: file -> what converting it does
  stack,      \* process -> call stack of index_folder frames (top is last)
  resp,       \* process -> what its last index_folder call returned or raised
  vstore,     \* the Nodes of the vector collections: [coll, doc, file, err, path]
  docstore,   \* the pipeline's docstore: [ns, doc, hash]
  registry,   \* the index_metadata collections: [coll, folder_id, absolute_path, time_indexed]
  nextId,     \* the next fresh Document id
  clock,      \* the value datetime.now() returns next
  runs,       \* ingest operations started so far
  rd,         \* what the last read operation (query, delete_index, ...) gave
  log,        \* the completed top-level ingests, in order
  snapshots,  \* the complete versions of the stores: before and after each build
  query_text, \* EnhancedQueryEngine: the question handed to hybrid_query
  now,        \* what datetime.now() returns during the query
  hits,       \* what the retriever returns for the question: index node, score
  qpc,        \* the position of the query engine in hybrid_query
  cleaned_query,     \* the question after _extract_metadata_filters
  extracted_filters, \* the filters of _extract_metadata_filters
  result,     \* what hybrid_query returned
  cmp,        \* the last call of _value_matches: its arguments and its result
  engine_threshold,  \* the engine's similarity_threshold, in hundredths
  answer,     \* what EnhancedQueryEngine.query returned as its answer
  llm_calls   \* the calls of llm.complete made so far

\* The variables of the ingestion side and of the query engine.
ivars == <<conv, stack, resp, vstore, docstore, registry, nextId, clock, runs,
           rd, log, snapshots>>
qvars == <<query_text, now, hits, qpc, cleaned_query, extracted_filters, result, cmp,
           engine_threshold, answer, llm_calls>>

vars == <<conv, stack, resp, vstore, docstore, registry, nextId, clock, runs,
          rd, log, snapshots, query_text, now, hits, qpc, cleaned_query,
          extracted_filters, result, cmp, engine_threshold, answer,
          llm_calls>>

\* The processes that may run index_folder: one, or two at the same time.
Procs == {1}
ConcProcs == {1, 2}

\* --------------------------------------------------------- string helpers
RECURSIVE StripLeft(_)
StripLeft(s) ==
  IF s # <<>> /\ Head(s) = Slash THEN StripLeft(Tail(s)) ELSE s

RECURSIVE StripRight(_)
StripRight(s) ==
  IF s # <<>> /\ s[Len(s)] = Slash THEN StripRight(SubSeq(s, 1, Len(s) - 1)) ELSE s

\* str.strip("/")
Strip(s) == StripRight(StripLeft(s))

\* str.split("/")[0]
RECURSIVE SplitFirst(_)
SplitFirst(s) ==
  IF s = <<>> \/ Head(s) = Slash THEN <<>> ELSE <<Head(s)>> \o SplitFirst(Tail(s))

\* root_id = absolute_id_path.strip("/").split("/")[0]
RootId(absolute_id_path) == SplitFirst(Strip(absolute_id_path))

RECURSIVE Reversed(_)
Reversed(s) == IF s = <<>> THEN <<>> ELSE Append(Reversed(Tail(s)), Head(s))

\* "/".join(ids)
RECURSIVE Join(_)
Join(ids) ==
  IF ids = <<>> THEN <<>>
  ELSE IF Len(ids) = 1 THEN <<ids[1]>>
  ELSE <<ids[1], Slash>> \o Join(Tail(ids))

\* The while loop of get_absolute_path_id: the ids from the folder up to the root.
RECURSIVE AncestorIds(_)
AncestorIds(folder_id) ==
  IF Parents(folder_id) = NoFolder THEN <<folder_id>>
  ELSE <<folder_id>> \o AncestorIds(Parents(folder_id))

get_absolute_path_id(folder_id) == <<Slash>> \o Join(Reversed(AncestorIds(folder_id)))

\* A subfolder path that forgets the path of the calling folder.
SubPath_fromRoot(absolute_id_path, subfolder_id) == <<Slash, subfolder_id>>

\* f"{absolute_id_path}/{subfolder_id}"
SubPath(absolute_id_path, subfolder_id) == absolute_id_path \o <<Slash, subfolder_id>>

\* ------------------------------------------------------------ the listing
FileEntry(f) == [id |-> f, folder |-> FALSE]
FolderEntry(d) == [id |-> d, folder |-> TRUE]

RECURSIVE EntriesOf(_, _)
EntriesOf(ids, isFolder) ==
  IF ids = <<>> THEN <<>>
  ELSE <<[id |-> Head(ids), folder |-> isFolder]>> \o EntriesOf(Tail(ids), isFolder)

InFolder(f, folder_id) == f \in Files /\ conv[f] # "absent" /\ Home(f) = folder_id
ChildOf(d, folder_id) == Parents(d) = folder_id

\* get_files_from_drive: the children of the folder, files and subfolders.
get_files_from_drive(folder_id) ==
  EntriesOf(SelectSeq(AllFiles, LAMBDA f : InFolder(f, folder_id)), FALSE)
    \o EntriesOf(SelectSeq(AllFolders, LAMBDA d : ChildOf(d, folder_id)), TRUE)

\* ------------------------------------------------------------- process_file
NoPath == <<>>
Document(id, f, isError) == [id |-> id, file |-> f, err |-> isError, path |-> NoPath]

\* process_file without its outer `except Exception`: a failed download
\* reaches the caller as an exception.
process_file_reraise(f, id) ==
  CASE conv[f] = "text" -> [raised |-> FALSE, msg |-> "", docs |-> <<Document(id, f, FALSE)>>]
    [] conv[f] = "dlfail" -> [raised |-> TRUE, msg |-> "download failed", docs |-> <<>>]
    [] conv[f] = "nodocs" -> [raised |-> FALSE, msg |-> "", docs |-> <<>>]
    [] OTHER -> [raised |-> TRUE, msg |-> "KeyError: mimeType", docs |-> <<>>]

\* process_file whose `except Exception` returns no Document: the failure is
\* dropped instead of being made a placeholder.
process_file_dropped(f, id) ==
  CASE conv[f] = "text" -> [raised |-> FALSE, msg |-> "", docs |-> <<Document(id, f, FALSE)>>]
    [] conv[f] = "dlfail" -> [raised |-> FALSE, msg |-> "", docs |-> <<>>]
    [] conv[f] = "nodocs" -> [raised |-> FALSE, msg |-> "", docs |-> <<>>]
    [] OTHER -> [raised |-> TRUE, msg |-> "KeyError: mimeType", docs |-> <<>>]

\* process_file: the Documents of one file, or the exception it raises. An
\* exception inside its try block gives one placeholder Document with `error`.
process_file(f, id) ==
  CASE conv[f] = "text" -> [raised |-> FALSE, msg |-> "", docs |-> <<Document(id, f, FALSE)>>]
    [] conv[f] = "dlfail" -> [raised |-> FALSE, msg |-> "", docs |-> <<Document(id, f, TRUE)>>]
    [] conv[f] = "nodocs" -> [raised |-> FALSE, msg |-> "", docs |-> <<>>]
    [] OTHER -> [raised |-> TRUE, msg |-> "KeyError: mimeType", docs |-> <<>>]

\* --------------------------------------------------------------- the stores
\* The hash of a Document: its text and metadata.
DocHash(doc) == <<doc.file, doc.err, doc.path>>
NodeOf(coll, doc) ==
  [coll |-> coll, doc |-> doc.id, file |-> doc.file, err |-> doc.err, path |-> doc.path]

\* get_index: the index over the collection named by the argument.
get_index(key) == {n \in vstore : n.coll = key}

\* get_index_structure: the IndexRecords of a root.
get_index_structure(root) == {r \in registry : r.coll = root}

\* What a scope holds, without the Document ids: content -> number of Nodes.
Content(nodes) ==
  {<<c, Cardinality({n \in nodes : <<n.file, n.err, n.path>> = c})>> :
     c \in {<<n.file, n.err, n.path>> : n \in nodes}}

\* ---------------------------------------------------- index_folder's frame
NoMeta == [bound |-> FALSE, folder_id |-> NoFolder, absolute_path |-> NoPath, time_indexed |-> 0]

\* A call index_folder(drive_service, document_indexer, folder_id, absolute_id_path).
Frame(folder_id, absolute_id_path) ==
  [folder |-> folder_id, path |-> absolute_id_path, pc |-> "list",
   files |-> <<>>, i |-> 1, documents |-> <<>>, failed |-> <<>>,
   subfolders |-> <<>>, pj |-> 1, meta |-> NoMeta, total |-> 0, subi |-> 1]

Top(p) == stack[p][Len(stack[p])]
At(p, pc) == stack[p] # <<>> /\ Top(p).pc = pc
SetTop(p, fr) == [stack EXCEPT ![p] = [@ EXCEPT ![Len(@)] = fr]]

NoResp ==
  [op |-> "none", folder |-> NoFolder, status |-> "", total |-> 0, failed |-> <<>>,
   detail |-> ""]

\* f"{name} ({reason})", an entry of failed_files.
Failure(id, reason) == [name |-> Name(id), reason |-> reason]

\* The HTTPException details of index_folder.
DriveError == "Failed to access Google Drive: listing failed"
PipelineError == "Failed to create index: pipeline failed"
UnboundError == "Failed to create index: local variable 'metadata' referenced before assignment"

\* The frame on top of process p's stack returns (response, total_files): the
\* caller adds total_files to its own and goes to its next subfolder; the
\* outermost call hands the response to the client.
Returns(p, total_files, failed_files) ==
  LET stk == stack[p] IN
  IF Len(stk) = 1
  THEN /\ stack' = [stack EXCEPT ![p] = <<>>]
       /\ resp' = [resp EXCEPT ![p] =
            [op |-> "ingest", folder |-> stk[1].folder, status |-> "success",
             total |-> total_files, failed |-> failed_files, detail |-> ""]]
       /\ log' = Append(log, [folder |-> stk[1].folder, status |-> "success",
                              content |-> Content(vstore)])
  ELSE /\ LET caller == stk[Len(stk) - 1] IN
          stack' = [stack EXCEPT ![p] =
            Append(SubSeq(stk, 1, Len(stk) - 2),
                   [caller EXCEPT !.total = @ + total_files, !.subi = @ + 1])]
       /\ UNCHANGED <<resp, log>>

\* The frame on top of process p's stack raises HTTPException(500, detail): the
\* caller's subfolder loop records it in failed_files and goes on; from the
\* outermost call it reaches the client.
Raises(p, detail) ==
  LET stk == stack[p] IN
  IF Len(stk) = 1
  THEN /\ stack' = [stack EXCEPT ![p] = <<>>]
       /\ resp' = [resp EXCEPT ![p] =
            [op |-> "ingest", folder |-> stk[1].folder, status |-> "error",
             total |-> 0, failed |-> <<>>, detail |-> detail]]
       /\ log' = Append(log, [folder |-> stk[1].folder, status |-> "error",
                              content |-> Content(vstore)])
  ELSE /\ LET caller == stk[Len(stk) - 1] IN
          stack' = [stack EXCEPT ![p] =
            Append(SubSeq(stk, 1, Len(stk) - 2),
                   [caller EXCEPT
                      !.failed = Append(@, Failure(stk[Len(stk)].folder, detail)),
                      !.subi = @ + 1])]
       /\ UNCHANGED <<resp, log>>

NoRead ==
  [op |-> "none", key |-> <<>>, outcome |-> "", nodes |-> {}, before |-> {}, records |-> {}]

\* ------------------------------------------------------------- index_folder
\* A client calls index_folder(drive_service, document_indexer, folder_id); the
\* scenario allows `limit` such calls.
StartIngest(p, folder_id, limit) ==
  /\ stack[p] = <<>>
  /\ runs < limit
  /\ stack' = [stack EXCEPT ![p] = <<Frame(folder_id, NoPath)>>]
  /\ resp' = [resp EXCEPT ![p] = NoResp]
  /\ runs' = runs + 1
  /\ rd' = NoRead
  /\ UNCHANGED <<conv, vstore, docstore, registry, nextId, clock, log, snapshots>>

\* index_folder whose `except Exception as drive_error` does not raise: a
\* failed listing is taken for an empty one and answered "Processed 0 items".
ListFiles_failureAsEmpty(p) ==
  /\ At(p, "list")
  /\ LET fr == Top(p)
         files == get_files_from_drive(fr.folder) IN
     \/ Returns(p, 0, <<>>)
     \/ /\ files # <<>>
        /\ stack' = SetTop(p, [fr EXCEPT !.files = files, !.pc = "files"])
        /\ UNCHANGED <<resp, log>>
  /\ UNCHANGED <<conv, vstore, docstore, registry, nextId, clock, runs, rd, snapshots>>

\* Lines 73-90: the listing, its early return on no children, its failure.
ListFiles(p) ==
  /\ At(p, "list")
  /\ LET fr == Top(p)
         files == get_files_from_drive(fr.folder) IN
     \/ Raises(p, DriveError)
     \/ /\ files = <<>>
        /\ Returns(p, 0, <<>>)
     \/ /\ files # <<>>
        /\ stack' = SetTop(p, [fr EXCEPT !.files = files, !.pc = "files"])
        /\ UNCHANGED <<resp, log>>
  /\ UNCHANGED <<conv, vstore, docstore, registry, nextId, clock, runs, rd, snapshots>>

\* Lines 96-112: one turn of the loop over the listing.
ProcessFile(p) ==
  /\ At(p, "files")
  /\ LET fr == Top(p)
         file == fr.files[fr.i]
         res == process_file(file.id, nextId)
         after == [fr EXCEPT !.i = @ + 1,
                             !.pc = IF fr.i = Len(fr.files) THEN "index" ELSE "files"] IN
     IF file.folder
     THEN /\ stack' = SetTop(p, [after EXCEPT !.subfolders = Append(@, file)])
          /\ UNCHANGED nextId
     ELSE IF res.raised
     THEN /\ stack' = SetTop(p, [after EXCEPT !.failed = Append(@, Failure(file.id, res.msg))])
          /\ UNCHANGED nextId
     ELSE IF res.docs # <<>>
     THEN /\ stack' = SetTop(p, [after EXCEPT !.documents = @ \o res.docs])
          /\ nextId' = nextId + Len(res.docs)
     ELSE /\ stack' = SetTop(p, [after EXCEPT
                 !.failed = Append(@, Failure(file.id, "no content extracted"))])
          /\ UNCHANGED nextId
  /\ UNCHANGED <<conv, resp, vstore, docstore, registry, clock, runs, rd, log, snapshots>>

\* ------------------------------------------------------------- create_index
\* Lines 106-107: doc.metadata["absolute_path"] = absolute_id_path.
RECURSIVE WithPath(_, _)
WithPath(documents, absolute_id_path) ==
  IF documents = <<>> THEN <<>>
  ELSE <<[Head(documents) EXCEPT !.path = absolute_id_path]>>
         \o WithPath(Tail(documents), absolute_id_path)

\* index_folder lines 115-119 and create_index lines 64-121: the canonical
\* path is computed when the caller gave none, and create_index takes the
\* branch `if documents:`.
CreateIndexBegin(p) ==
  /\ At(p, "index")
  /\ LET fr == Top(p)
         absolute_id_path ==
           IF fr.path = NoPath THEN get_absolute_path_id(fr.folder) ELSE fr.path IN
     IF fr.documents # <<>>
     THEN stack' = SetTop(p, [fr EXCEPT !.path = absolute_id_path,
                                        !.documents = WithPath(@, absolute_id_path),
                                        !.pc = "pipeline"])
     ELSE stack' = SetTop(p, [fr EXCEPT !.path = absolute_id_path, !.pc = "registry"])
  /\ UNCHANGED <<conv, resp, vstore, docstore, registry, nextId, clock, runs, rd, log,
                 snapshots>>

\* docstore_strategy="upserts" for one Document: a Document id the docstore
\* does not know is added; a known id with another hash replaces its Nodes; a
\* known id with the same hash is skipped.
UpsertNodes(root_id, doc) ==
  LET known == {e \in docstore : e.ns = root_id /\ e.doc = doc.id} IN
  IF known = {} THEN vstore \cup {NodeOf(root_id, doc)}
  ELSE IF \E e \in known : e.hash # DocHash(doc)
  THEN {n \in vstore : ~(n.coll = root_id /\ n.doc = doc.id)} \cup {NodeOf(root_id, doc)}
  ELSE vstore

UpsertDocstore(root_id, doc) ==
  {e \in docstore : ~(e.ns = root_id /\ e.doc = doc.id)}
    \cup {[ns |-> root_id, doc |-> doc.id, hash |-> DocHash(doc)]}

\* A build that writes the registry record although its pipeline fails.
PipelineRun_recordsFailure(p) ==
  /\ At(p, "pipeline")
  /\ LET fr == Top(p)
         root_id == RootId(fr.path)
         doc == fr.documents[fr.pj] IN
     \/ /\ Raises(p, PipelineError)
        /\ registry' = {r \in registry : ~(r.coll = root_id /\ r.folder_id = fr.folder)}
             \cup {[coll |-> root_id, folder_id |-> fr.folder,
                    absolute_path |-> fr.path, time_indexed |-> clock]}
        /\ UNCHANGED <<vstore, docstore, clock>>
     \/ /\ vstore' = UpsertNodes(root_id, doc)
        /\ docstore' = UpsertDocstore(root_id, doc)
        /\ IF fr.pj = Len(fr.documents)
           THEN /\ stack' = SetTop(p, [fr EXCEPT
                     !.pc = "registry",
                     !.meta = [bound |-> TRUE, folder_id |-> fr.folder,
                               absolute_path |-> fr.path, time_indexed |-> clock]])
                /\ clock' = clock + 1
           ELSE /\ stack' = SetTop(p, [fr EXCEPT !.pj = @ + 1])
                /\ UNCHANGED clock
        /\ UNCHANGED <<resp, log, registry>>
  /\ UNCHANGED <<conv, nextId, runs, rd, snapshots>>

\* Lines 123-141: pipeline.run writes the Nodes of the Documents into the
\* live collection of the root, one Document per step, with no transaction
\* around them; embedding or storage may fail. After the last Document the
\* metadata record is made, with the time of that moment.
PipelineRun(p) ==
  /\ At(p, "pipeline")
  /\ LET fr == Top(p)
         root_id == RootId(fr.path)
         doc == fr.documents[fr.pj] IN
     \/ /\ Raises(p, PipelineError)
        /\ UNCHANGED <<vstore, docstore, clock>>
     \/ /\ vstore' = UpsertNodes(root_id, doc)
        /\ docstore' = UpsertDocstore(root_id, doc)
        /\ IF fr.pj = Len(fr.documents)
           THEN /\ stack' = SetTop(p, [fr EXCEPT
                     !.pc = "registry",
                     !.meta = [bound |-> TRUE, folder_id |-> fr.folder,
                               absolute_path |-> fr.path, time_indexed |-> clock]])
                /\ clock' = clock + 1
           ELSE /\ stack' = SetTop(p, [fr EXCEPT !.pj = @ + 1])
                /\ UNCHANGED clock
        /\ UNCHANGED <<resp, log>>
  /\ UNCHANGED <<conv, registry, nextId, runs, rd, snapshots>>

\* An insert_one in the place of the upsert: the record is added and the
\* record the folder already has stays.
update_one_insert(root_id, metadata) ==
  registry \cup {[coll |-> root_id, folder_id |-> metadata.folder_id,
                  absolute_path |-> metadata.absolute_path,
                  time_indexed |-> metadata.time_indexed]}

\* update_one({"folder_id": folder_id}, {"$set": metadata}, upsert=True) on the
\* index_metadata collection of the root.
update_one(root_id, metadata) ==
  LET found == {r \in registry : r.coll = root_id /\ r.folder_id = metadata.folder_id}
      record == [coll |-> root_id, folder_id |-> metadata.folder_id,
                 absolute_path |-> metadata.absolute_path,
                 time_indexed |-> metadata.time_indexed] IN
  IF found = {} THEN registry \cup {record}
  ELSE LET old == CHOOSE r \in found : TRUE IN (registry \ {old}) \cup {record}

\* create_index lines 145-149 and index_folder lines 120-130: the registry
\* write. `metadata` is bound only in the branch `if documents:`; without
\* Documents the write raises, which index_folder turns into HTTPException.
UpdateRegistry(p) ==
  /\ At(p, "registry")
  /\ LET fr == Top(p) IN
     IF fr.meta.bound
     THEN /\ registry' = update_one(RootId(fr.path), fr.meta)
          /\ snapshots' = snapshots \cup {[nodes |-> vstore, records |-> registry']}
          /\ stack' = SetTop(p, [fr EXCEPT
               !.total = Len(fr.files) - Len(fr.subfolders) - Len(fr.failed),
               !.pc = "subs"])
          /\ UNCHANGED <<resp, log>>
     ELSE /\ Raises(p, UnboundError)
          /\ UNCHANGED <<registry, snapshots>>
  /\ UNCHANGED <<conv, vstore, docstore, nextId, clock, runs, rd>>

\* Lines 133-138: the recursive call for the next subfolder.
CallSubfolder(p) ==
  /\ At(p, "subs")
  /\ LET fr == Top(p) IN
     /\ fr.subi <= Len(fr.subfolders)
     /\ stack' = [stack EXCEPT ![p] =
          Append(@, Frame(fr.subfolders[fr.subi].id,
                          SubPath(fr.path, fr.subfolders[fr.subi].id)))]
  /\ UNCHANGED <<conv, resp, vstore, docstore, registry, nextId, clock, runs, rd, log,
                 snapshots>>

\* Lines 147-156: the response, after the last subfolder.
ReturnResponse(p) ==
  /\ At(p, "subs")
  /\ LET fr == Top(p) IN
     /\ fr.subi > Len(fr.subfolders)
     /\ Returns(p, fr.total, fr.failed)
  /\ UNCHANGED <<conv, vstore, docstore, registry, nextId, clock, runs, rd, snapshots>>

\* -------------------------------------------------------- read operations
Idle == \A p \in ConcProcs : stack[p] = <<>>

\* The keys a client may ask for: a folder id, or a canonical path.
Keys == {<<d>> : d \in Folders} \cup {get_absolute_path_id(d) : d \in Folders}

\* EnhancedQueryEngine.query lines 324-338: get_index(root_id) and the
\* retrieval over its Nodes; a storage failure is not caught.
query(root_id) ==
  /\ \/ rd' = [op |-> "query", key |-> root_id, outcome |-> "ok",
               nodes |-> get_index(root_id), before |-> registry, records |-> registry]
     \/ rd' = [op |-> "query", key |-> root_id, outcome |-> "raised",
               nodes |-> {}, before |-> registry, records |-> registry]
  /\ UNCHANGED <<conv, stack, resp, vstore, docstore, registry, nextId, clock, runs, log,
                 snapshots>>

\* DocumentIndexer.delete_index: the body is `pass`, so the call returns None
\* and the registry after it is the registry before it.
delete_index(folder_id) ==
  /\ rd' = [op |-> "delete", key |-> <<folder_id>>, outcome |-> "None",
            nodes |-> {}, before |-> registry, records |-> registry]
  /\ UNCHANGED <<conv, stack, resp, vstore, docstore, registry, nextId, clock, runs, log,
                 snapshots>>

\* ------------------------------------------------------- the specifications
TypeInit ==
  /\ stack = [p \in ConcProcs |-> <<>>]
  /\ resp = [p \in ConcProcs |-> NoResp]
  /\ vstore = {}
  /\ docstore = {}
  /\ registry = {}
  /\ nextId = 1
  /\ clock = 1
  /\ runs = 0
  /\ rd = NoRead
  /\ log = <<>>
  /\ snapshots = {[nodes |-> {}, records |-> {}]}

\* The engine's defaults (query_engine.py line 82), the threshold in hundredths.
top_k == 8
similarity_threshold == 78

\* No answer has been given.
NoAnswer == "none"

\* No question has been asked of the query engine.
NoQuery ==
  /\ query_text = <<>>
  /\ now = [y |-> 2025, m |-> 1, d |-> 1, t |-> 0]
  /\ hits = <<>>
  /\ qpc = "idle"
  /\ cleaned_query = <<>>
  /\ extracted_filters = <<>>
  /\ result = <<>>
  /\ cmp = [called |-> FALSE]
  /\ engine_threshold = similarity_threshold
  /\ answer = NoAnswer
  /\ llm_calls = 0

Init ==
  /\ conv \in [Files -> ConvKinds]
  /\ TypeInit
  /\ NoQuery

\* The Drive of the scenarios about re-ingestion, reads and concurrency:
\* every file is there and converts, or is not there.
PlainInit ==
  /\ conv \in [Files -> {"absent", "text"}]
  /\ TypeInit
  /\ NoQuery

\* A step of process p in index_folder, called on one of the targets.
IngestStep(p, targets, limit) ==
  /\ \/ \E d \in targets : StartIngest(p, d, limit)
     \/ ListFiles(p)
     \/ ProcessFile(p)
     \/ CreateIndexBegin(p)
     \/ PipelineRun(p)
     \/ UpdateRegistry(p)
     \/ CallSubfolder(p)
     \/ ReturnResponse(p)
  /\ UNCHANGED qvars

ReadStep ==
  /\ \/ \E k \in Keys : query(k)
     \/ \E d \in Folders : delete_index(d)
  /\ UNCHANGED qvars

\* One client, MaxRuns ingests, any Drive.
Next == \E p \in Procs : IngestStep(p, Folders, MaxRuns)

Spec == Init /\ [][Next]_vars

\* A step in which a collaborator fails: the Drive listing or the pipeline
\* raises, which index_folder hands to the client or, from a subfolder,
\* records in the caller's failed_files.
AllFailed(stk) == UNION {{stk[k].failed[j] : j \in 1..Len(stk[k].failed)} : k \in 1..Len(stk)}
CollaboratorFault ==
  \E p \in ConcProcs :
    \/ resp'[p] # resp[p] /\ resp'[p].detail \in {DriveError, PipelineError}
    \/ \E x \in AllFailed(stack'[p]) \ AllFailed(stack[p]) :
         x.reason \in {DriveError, PipelineError}

\* One client, MaxRuns ingests, any Drive, collaborators that do not fail.
SoundNext == (\E p \in Procs : IngestStep(p, Folders, MaxRuns)) /\ ~CollaboratorFault

SoundSpec == Init /\ [][SoundNext]_vars

\* One client that ingests again after an ingest.
ReNext == \E p \in Procs : IngestStep(p, Folders, MaxRuns + 1)

ReSpec == PlainInit /\ [][ReNext]_vars

\* One client that ingests while others read.
ReadNext == (\E p \in Procs : IngestStep(p, Folders, MaxRuns)) \/ ReadStep

ReadSpec == PlainInit /\ [][ReadNext]_vars

\* Two clients that ingest the same folder at the same time.
ConcTargets == {"A"}
ConcNext == \E p \in ConcProcs : IngestStep(p, ConcTargets, MaxRuns + 1)

ConcSpec == PlainInit /\ [][ConcNext]_vars

\* ------------------------------------------------- the query engine: text
\* A text is a sequence of atoms: a space, a digit, a punctuation character,
\* or a run of letters (a field name counts as one atom). The letter atoms
\* are cut so that every literal the code searches for begins and ends at an
\* atom boundary.
Space == " "

\* F of v, with v's value computed once however often F uses it.
With(v, F(_)) == CHOOSE r \in {F(x) : x \in {v}} : TRUE
Digits == {"0", "1", "2", "3", "4", "5", "6", "7", "8", "9"}
Capitals == {"After", "July", "January", "March", "Photos", "Banana"}
Letters ==
  {"after", "before", "between", "and", "july", "january", "march", "banana",
   "yesterday", "last", "this", "week", "month", "year", "st", "nd", "rd", "th",
   "cats", "images", "pictures", "photos", "videos", "clips", "audio", "book",
   "recordings", "documents", "pdfs", "spread", "sheets", "excel", "csv", "txt",
   "markdown", "ppt", "powerpoint", "slide", "s", "how", "image", "document",
   "video", "abc"} \cup Capitals

\* str.lower()
Lower(a) ==
  CASE a = "After" -> "after"
    [] a = "July" -> "july"
    [] a = "January" -> "january"
    [] a = "March" -> "march"
    [] a = "Photos" -> "photos"
    [] a = "Banana" -> "banana"
    [] OTHER -> a

LowerText(s) == IF s = <<>> THEN <<>> ELSE [k \in 1..Len(s) |-> Lower(s[k])]

\* str.strip()
RECURSIVE lstrip(_)
lstrip(s) == IF s # <<>> /\ Head(s) = Space THEN lstrip(Tail(s)) ELSE s

RECURSIVE rstrip(_)
rstrip(s) ==
  IF s # <<>> /\ s[Len(s)] = Space THEN rstrip(SubSeq(s, 1, Len(s) - 1)) ELSE s

strip(s) == rstrip(lstrip(s))

\* The text from position i on.
From(s, i) == SubSeq(s, i, Len(s))

\* Whether text `old` stands in s at position i; with IGNORECASE when ic.
StandsAt(s, i, old, ic) ==
  /\ i + Len(old) - 1 <= Len(s)
  /\ \A k \in 1..Len(old) :
       IF ic THEN Lower(s[i + k - 1]) = Lower(old[k]) ELSE s[i + k - 1] = old[k]

\* str.replace(old, "") and re.sub(old, "", s, flags=re.IGNORECASE): every
\* occurrence of old, found from left to right, is taken out.
RECURSIVE RemoveAll(_, _, _)
RemoveAll(s, old, ic) ==
  IF s = <<>> \/ old = <<>> THEN s
  ELSE IF StandsAt(s, 1, old, ic) THEN RemoveAll(From(s, Len(old) + 1), old, ic)
  ELSE <<Head(s)>> \o RemoveAll(Tail(s), old, ic)

\* `old in s`
Contains(s, old) == \E i \in 1..Len(s) : StandsAt(s, i, old, FALSE)

\* --------------------------------------- the query engine: the patterns
\* A piece of a pattern, tried at position i of text s, gives the position
\* after what it matched, or 0 when it does not match. Every quantifier of
\* the patterns is greedy and what follows it never begins with what it
\* repeats, so the greedy match is the match.
NoMatch == 0

\* \s*
RECURSIVE Spaces0(_, _)
Spaces0(s, i) == IF i <= Len(s) /\ s[i] = Space THEN Spaces0(s, i + 1) ELSE i

\* \s+
Spaces1(s, i) == IF i <= Len(s) /\ s[i] = Space THEN Spaces0(s, i + 1) ELSE NoMatch

\* [A-Za-z]+
RECURSIVE Letters0(_, _)
Letters0(s, i) == IF i <= Len(s) /\ s[i] \in Letters THEN Letters0(s, i + 1) ELSE i

Letters1(s, i) == IF i <= Len(s) /\ s[i] \in Letters THEN Letters0(s, i + 1) ELSE NoMatch

\* [^\s]+
RECURSIVE NonSpaces0(_, _)
NonSpaces0(s, i) == IF i <= Len(s) /\ s[i] # Space THEN NonSpaces0(s, i + 1) ELSE i

NonSpaces1(s, i) == IF i <= Len(s) /\ s[i] # Space THEN NonSpaces0(s, i + 1) ELSE NoMatch

IsDigitAt(s, i) == i <= Len(s) /\ s[i] \in Digits

\* \d{1,2}
Digits12(s, i) ==
  IF ~IsDigitAt(s, i) THEN NoMatch
  ELSE IF IsDigitAt(s, i + 1) THEN i + 2 ELSE i + 1

\* (?:st|nd|rd|th)?
OrdinalOpt(s, i) ==
  IF i <= Len(s) /\ Lower(s[i]) \in {"st", "nd", "rd", "th"} THEN i + 1 ELSE i

\* (?:\s+\d{4})?
YearOpt(s, i) ==
  LET j == Spaces1(s, i) IN
  IF j # NoMatch /\ \A k \in 0..3 : IsDigitAt(s, j + k) THEN j + 4 ELSE i

\* [A-Za-z]+\s+\d{1,2}(?:st|nd|rd|th)?(?:\s+\d{4})?
DateExpr(s, i) ==
  LET a == Letters1(s, i)
      b == IF a = NoMatch THEN NoMatch ELSE Spaces1(s, a)
      c == IF b = NoMatch THEN NoMatch ELSE Digits12(s, b) IN
  IF c = NoMatch THEN NoMatch ELSE YearOpt(s, OrdinalOpt(s, c))

\* A literal word of a pattern, with re.IGNORECASE.
Word(s, i, w) == IF i <= Len(s) /\ Lower(s[i]) = w THEN i + 1 ELSE NoMatch

\* A match: where it ends and the value it gives its filter; group(0) is the
\* text from its start to its end.
Match(end, value) == [end |-> end, value |-> value]
Fails == Match(NoMatch, <<>>)

\* (before|after)\s+(<date>): the filter is f"{group(1)} {group(2)}".
DateAt(s, i) ==
  LET a == IF Word(s, i, "before") # NoMatch THEN i + 1 ELSE Word(s, i, "after")
      b == IF a = NoMatch THEN NoMatch ELSE Spaces1(s, a)
      e == IF b = NoMatch THEN NoMatch ELSE DateExpr(s, b) IN
  IF e = NoMatch THEN Fails
  ELSE Match(e, <<s[i], Space>> \o SubSeq(s, b, e - 1))

\* between\s+(<date>)\s+and\s+(<date>): the filter is
\* f"between {group(1)} and {group(2)}".
DateRangeAt(s, i) ==
  LET a == Word(s, i, "between")
      b == IF a = NoMatch THEN NoMatch ELSE Spaces1(s, a)
      c == IF b = NoMatch THEN NoMatch ELSE DateExpr(s, b)
      d == IF c = NoMatch THEN NoMatch ELSE Spaces1(s, c)
      f == IF d = NoMatch THEN NoMatch ELSE Word(s, d, "and")
      g == IF f = NoMatch THEN NoMatch ELSE Spaces1(s, f)
      e == IF g = NoMatch THEN NoMatch ELSE DateExpr(s, g) IN
  IF e = NoMatch THEN Fails
  ELSE Match(e, <<"between", Space>> \o SubSeq(s, b, c - 1)
                  \o <<Space, "and", Space>> \o SubSeq(s, g, e - 1))

\* (yesterday|last week|last month|last year|this month|this year)
RelativeTerms ==
  <<<<"yesterday">>, <<"last", Space, "week">>, <<"last", Space, "month">>,
    <<"last", Space, "year">>, <<"this", Space, "month">>, <<"this", Space, "year">>>>

RelativeDateAt(s, i) ==
  LET fit == {k \in 1..Len(RelativeTerms) : StandsAt(s, i, RelativeTerms[k], TRUE)} IN
  IF fit = {} THEN Fails
  ELSE LET k == CHOOSE k \in fit : \A l \in fit : k <= l
           e == i + Len(RelativeTerms[k]) IN
       Match(e, SubSeq(s, i, e - 1))

\* rf"{field}:\s*([^\s]+)": the filter is group(1).
FieldAt(field, s, i) ==
  LET a == Word(s, i, field)
      b == IF a # NoMatch /\ a <= Len(s) /\ s[a] = ":" THEN Spaces0(s, a + 1) ELSE NoMatch
      e == IF b = NoMatch THEN NoMatch ELSE NonSpaces1(s, b) IN
  IF e = NoMatch THEN Fails ELSE Match(e, SubSeq(s, b, e - 1))

MatchAt(pattern, s, i) ==
  CASE pattern = "date" -> DateAt(s, i)
    [] pattern = "date_range" -> DateRangeAt(s, i)
    [] pattern = "relative_date" -> RelativeDateAt(s, i)
    [] OTHER -> FieldAt(pattern, s, i)

\* re.finditer(pattern, s, re.IGNORECASE): the matches from left to right,
\* each search starting where the last match ended. A match is kept with
\* its group(0) and its span.
RECURSIVE finditer(_, _, _)
finditer(pattern, s, i) ==
  IF i > Len(s) THEN <<>>
  ELSE With(MatchAt(pattern, s, i),
            LAMBDA m : IF m.end = NoMatch THEN finditer(pattern, s, i + 1)
                       ELSE <<[group0 |-> SubSeq(s, i, m.end - 1), value |-> m.value,
                               start |-> i, end |-> m.end]>>
                              \o finditer(pattern, s, m.end))

\* ------------------------------------ the query engine: the query planner
FILTERING_METADATA ==
  <<"created_time", "modified_time", "file_size", "dimensions", "duration",
    "coordinates", "page_count", "bitrate">>

FilterKeys ==
  {"date", "file_type"} \cup {FILTERING_METADATA[k] : k \in 1..Len(FILTERING_METADATA)}

\* A dict of filters: key -> value, NoValue for a key the dict does not have.
NoValue == <<>>
NoFilters == [key \in FilterKeys |-> NoValue]

date_patterns == <<"date", "date_range", "relative_date">>

keyword_map ==
  <<[word |-> <<"images">>, file_type |-> "image"],
    [word |-> <<"pictures">>, file_type |-> "image"],
    [word |-> <<"photos">>, file_type |-> "image"],
    [word |-> <<"videos">>, file_type |-> "video"],
    [word |-> <<"clips">>, file_type |-> "video"],
    [word |-> <<"audio">>, file_type |-> "audio"],
    [word |-> <<"recordings">>, file_type |-> "audio"],
    [word |-> <<"documents">>, file_type |-> "document"],
    [word |-> <<"pdfs">>, file_type |-> "document"],
    [word |-> <<"spread", "sheets">>, file_type |-> "document"],
    [word |-> <<"sheets">>, file_type |-> "document"],
    [word |-> <<"excel">>, file_type |-> "document"],
    [word |-> <<"csv">>, file_type |-> "document"],
    [word |-> <<"txt">>, file_type |-> "document"],
    [word |-> <<"markdown">>, file_type |-> "document"],
    [word |-> <<"ppt">>, file_type |-> "document"],
    [word |-> <<"powerpoint">>, file_type |-> "document"],
    [word |-> <<"slide", "s">>, file_type |-> "document"],
    [word |-> <<"slide", "s", "how">>, file_type |-> "document"],
    [word |-> <<"slide", "s", "how", "s">>, file_type |-> "document"]>>

\* The plan so far: (cleaned_query, metadata_filters).
Plan(cleaned, filters) == [cleaned |-> cleaned, filters |-> filters]

\* Lines 110-119 and 126-128, the body of the loop over the matches of one
\* pattern: the filter of the key is set and the matched text is taken out
\* of cleaned_query, which is then stripped.
TakeMatch(m, key, plan) ==
  Plan(strip(RemoveAll(plan.cleaned, m.group0, FALSE)),
       [plan.filters EXCEPT ![key] = m.value])

RECURSIVE TakeMatches(_, _, _)
TakeMatches(matches, key, plan) ==
  IF matches = <<>> THEN plan
  ELSE With(TakeMatch(Head(matches), key, plan),
            LAMBDA p : TakeMatches(Tail(matches), key, p))

\* Lines 108-119: the date patterns in their order, each searched in the question.
RECURSIVE TakeDates(_, _, _)
TakeDates(k, question, plan) ==
  IF k > Len(date_patterns) THEN plan
  ELSE With(TakeMatches(finditer(date_patterns[k], question, 1), "date", plan),
            LAMBDA p : TakeDates(k + 1, question, p))

\* Lines 121-128: the fields of FILTERING_METADATA but the two times.
TakeField(field, question, plan) ==
  IF field \in {"created_time", "modified_time"} THEN plan
  ELSE TakeMatches(finditer(field, question, 1), field, plan)

RECURSIVE TakeFields(_, _, _)
TakeFields(k, question, plan) ==
  IF k > Len(FILTERING_METADATA) THEN plan
  ELSE With(TakeField(FILTERING_METADATA[k], question, plan),
            LAMBDA p : TakeFields(k + 1, question, p))

\* Lines 154-159: the keywords in the order of the dict, each searched in
\* the cleaned_query of that moment.
TakeKeyword(kw, plan) ==
  IF Contains(LowerText(plan.cleaned), kw.word)
  THEN Plan(strip(RemoveAll(plan.cleaned, kw.word, TRUE)),
            [plan.filters EXCEPT !["file_type"] = <<kw.file_type>>])
  ELSE plan

RECURSIVE TakeKeywords(_, _)
TakeKeywords(k, plan) ==
  IF k > Len(keyword_map) THEN plan
  ELSE With(TakeKeyword(keyword_map[k], plan), LAMBDA p : TakeKeywords(k + 1, p))

_extract_metadata_filters(question) ==
  TakeKeywords(1, TakeFields(1, question, TakeDates(1, question, Plan(question, NoFilters))))

\* ---------------------------------------- the query engine: dates and times
\* A datetime: year, month, day and the second of the day; a naive one has
\* no offset, an aware one is in UTC.
DateTime(y, m, d, t) == [y |-> y, m |-> m, d |-> d, t |-> t]
LastSecond == 86399
datetime_min == DateTime(1, 1, 1, 0)
datetime_max == DateTime(9999, 12, 31, LastSecond)

IsLeap(y) == (y % 4 = 0 /\ y % 100 # 0) \/ y % 400 = 0
DaysInMonth(y, m) ==
  IF m = 2 THEN (IF IsLeap(y) THEN 29 ELSE 28)
  ELSE IF m \in {4, 6, 9, 11} THEN 30 ELSE 31

\* a <= b on datetimes
Leq(a, b) ==
  \/ a.y < b.y
  \/ a.y = b.y /\ a.m < b.m
  \/ a.y = b.y /\ a.m = b.m /\ a.d < b.d
  \/ a.y = b.y /\ a.m = b.m /\ a.d = b.d /\ a.t <= b.t

\* dt - timedelta(days=1)
DayBefore(dt) ==
  IF dt.d > 1 THEN [dt EXCEPT !.d = @ - 1]
  ELSE IF dt.m > 1 THEN [dt EXCEPT !.m = @ - 1, !.d = DaysInMonth(dt.y, dt.m - 1)]
  ELSE [dt EXCEPT !.y = @ - 1, !.m = 12, !.d = 31]

\* dt - timedelta(days=n)
RECURSIVE MinusDays(_, _)
MinusDays(dt, n) ==
  IF n = 0 THEN dt ELSE With(DayBefore(dt), LAMBDA day : MinusDays(day, n - 1))

Min(a, b) == IF a <= b THEN a ELSE b

\* dt - relativedelta(months=1) and dt - relativedelta(years=1): the day is
\* cut to the length of the month reached.
MinusMonth(dt) ==
  LET y == IF dt.m = 1 THEN dt.y - 1 ELSE dt.y
      m == IF dt.m = 1 THEN 12 ELSE dt.m - 1 IN
  [dt EXCEPT !.y = y, !.m = m, !.d = Min(dt.d, DaysInMonth(y, m))]

MinusYear(dt) == [dt EXCEPT !.y = @ - 1, !.d = Min(dt.d, DaysInMonth(dt.y - 1, dt.m))]

\* The value of a run of digits.
DigitValue(c) ==
  CASE c = "0" -> 0 [] c = "1" -> 1 [] c = "2" -> 2 [] c = "3" -> 3 [] c = "4" -> 4
    [] c = "5" -> 5 [] c = "6" -> 6 [] c = "7" -> 7 [] c = "8" -> 8 [] OTHER -> 9

RECURSIVE NumberValue(_)
NumberValue(ds) ==
  IF ds = <<>> THEN 0 ELSE 10 * NumberValue(SubSeq(ds, 1, Len(ds) - 1)) + DigitValue(ds[Len(ds)])

\* dateutil's parser.parse, which parse_date calls, on the texts the planner
\* can hand it: words, numbers of one, two or four digits, spaces. The text
\* is cut into words (runs of letters) and numbers (runs of digits).
RECURSIVE Digits0(_, _)
Digits0(s, i) == IF IsDigitAt(s, i) THEN Digits0(s, i + 1) ELSE i

RECURSIVE Tokens(_, _)
Tokens(s, i) ==
  IF i > Len(s) THEN <<>>
  ELSE IF s[i] \in Letters
  THEN With(Letters0(s, i),
            LAMBDA j : <<[kind |-> "word", text |-> SubSeq(s, i, j - 1)]>> \o Tokens(s, j))
  ELSE IF s[i] \in Digits
  THEN With(Digits0(s, i),
            LAMBDA j : <<[kind |-> "number", text |-> SubSeq(s, i, j - 1)]>> \o Tokens(s, j))
  ELSE IF s[i] = Space THEN Tokens(s, i + 1)
  ELSE <<[kind |-> "other", text |-> <<s[i]>>]>> \o Tokens(s, i + 1)

\* The words dateutil skips, and the month names it knows, among the letters.
JumpWords == {<<"and">>, <<"st">>, <<"nd">>, <<"rd">>, <<"th">>}
MonthOf(word) ==
  CASE word = <<"january">> -> 1
    [] word = <<"march">> -> 3
    [] word = <<"july">> -> 7
    [] OTHER -> 0

Raised == [raised |-> TRUE]

\* The tokens that are a month name, a day (one or two digits), a year (four).
MonthTokens(toks) ==
  {k \in 1..Len(toks) : toks[k].kind = "word" /\ MonthOf(toks[k].text) # 0}
DayTokens(toks) == {k \in 1..Len(toks) : toks[k].kind = "number" /\ Len(toks[k].text) <= 2}
YearTokens(toks) == {k \in 1..Len(toks) : toks[k].kind = "number" /\ Len(toks[k].text) = 4}

\* One of the tokens at the places ks.
TokenAt(toks, ks) == toks[CHOOSE k \in ks : TRUE].text

\* The date of year, month and day, when the month has the day.
MakeDate(y, m, d) ==
  IF d < 1 \/ d > DaysInMonth(y, m) THEN Raised
  ELSE [raised |-> FALSE, date |-> DateTime(y, m, d, 0)]

\* The day the tokens give, or today's, cut to the length of the month.
DateOfMonth(toks, days, today, y, m) ==
  MakeDate(y, m, IF days = {} THEN Min(today.d, DaysInMonth(y, m))
                 ELSE NumberValue(TokenAt(toks, days)))

DateOfTokens(toks, months, days, years, today) ==
  IF \/ toks = <<>>
     \/ months \cup days \cup years # 1..Len(toks)
     \/ Cardinality(months) > 1 \/ Cardinality(days) > 1 \/ Cardinality(years) > 1
  THEN Raised
  ELSE DateOfMonth(toks, days, today,
                   IF years = {} THEN today.y ELSE NumberValue(TokenAt(toks, years)),
                   IF months = {} THEN today.m ELSE MonthOf(TokenAt(toks, months)))

ParseTokens(toks, today) ==
  DateOfTokens(toks, MonthTokens(toks), DayTokens(toks), YearTokens(toks), today)

\* parser.parse(text): the fields the text does not give come from today at
\* 00:00:00, the day cut to the length of the month. A word that is no month
\* name, a second month, day or year, a day the month does not have, and a
\* text that gives no field raise ParserError.
parser_parse(text, today) ==
  ParseTokens(SelectSeq(Tokens(LowerText(text), 1), LAMBDA x : x.text \notin JumpWords),
              today)

\* --------------------------------------------- DateParser.parse_date
Interval(start, end) == [raised |-> FALSE, start |-> start, end |-> end]

\* re.match(r"<word>\s+(.+)", s): where group(1) begins, or NoMatch.
WordThenRest(s, w) ==
  LET a == Word(s, 1, w)
      b == IF a = NoMatch THEN NoMatch ELSE Spaces1(s, a) IN
  IF b # NoMatch /\ b <= Len(s) THEN b ELSE NoMatch

\* re.match(r"between\s+(.+)\s+and\s+(.+)", s): the first (.+) is greedy, so
\* the `and` that splits the text is the last one that has a space before it
\* and after it, something before that space and something after the spaces
\* that follow it.
BetweenAnds(s) ==
  LET b == WordThenRest(s, "between") IN
  IF b = NoMatch THEN {}
  ELSE {k \in (b + 2)..(Len(s) - 2) :
          /\ s[k] = "and"
          /\ s[k - 1] = Space
          /\ s[k + 1] = Space
          /\ Spaces0(s, k + 1) <= Len(s)}

\* What the branches of parse_date make of the dates parser.parse gave.
Before(date) == IF date.raised THEN Raised ELSE Interval(datetime_min, date.date)
After_untilThatDay(date) ==
  IF date.raised THEN Raised ELSE Interval(date.date, date.date)
After(date) == IF date.raised THEN Raised ELSE Interval(date.date, datetime_max)
Between(start_date, end_date) ==
  IF start_date.raised \/ end_date.raised THEN Raised
  ELSE Interval(start_date.date, end_date.date)
Single(date) == IF date.raised THEN Raised ELSE Interval(date.date, date.date)

\* Lines 69-72: group(1) ends a space before the `and` at place k, group(2)
\* begins after the spaces that follow it.
BetweenDates(s, k, today) ==
  Between(parser_parse(SubSeq(s, WordThenRest(s, "between"), k - 2), today),
          parser_parse(From(s, Spaces0(s, k + 1)), today))

Last(ks) == CHOOSE k \in ks : \A l \in ks : l <= k

\* Lines 34-78 on the lowered and stripped text; `moment` is datetime.now()
\* and `today` is that day at 00:00:00.
ParseLowered(s, moment, today) ==
  IF s = <<"yesterday">> THEN Interval(DayBefore(moment), moment)
  ELSE IF s = <<"last", Space, "week">> THEN Interval(MinusDays(moment, 7), moment)
  ELSE IF s = <<"last", Space, "month">> THEN Interval(MinusMonth(moment), moment)
  ELSE IF s = <<"last", Space, "year">> THEN Interval(MinusYear(moment), moment)
  ELSE IF s = <<"this", Space, "month">> THEN Interval([moment EXCEPT !.d = 1], moment)
  ELSE IF s = <<"this", Space, "year">>
  THEN Interval([moment EXCEPT !.m = 1, !.d = 1], moment)
  ELSE IF WordThenRest(s, "before") # NoMatch
  THEN Before(parser_parse(From(s, WordThenRest(s, "before")), today))
  ELSE IF WordThenRest(s, "after") # NoMatch
  THEN After(parser_parse(From(s, WordThenRest(s, "after")), today))
  ELSE IF BetweenAnds(s) # {} THEN BetweenDates(s, Last(BetweenAnds(s)), today)
  ELSE Single(parser_parse(s, today))

\* Lines 30-78.
parse_date(date_str, moment) ==
  ParseLowered(strip(LowerText(date_str)), moment, [moment EXCEPT !.t = 0])

\* ------------------------------------------ the query engine: the filters
\* The timestamp text of a node: "Z" is the UTC form Drive gives
\* (2025-07-12T10:00:00Z), "naive" has no offset, "bad" is no ISO text and
\* "none" stands for a node without the field.
Timestamp(form, dt) == [form |-> form, dt |-> dt]
NoTimestamp == Timestamp("none", datetime_min)

\* None, for a metadata field the node does not have.
None == <<>>

\* Lines 268-275. datetime.fromisoformat raises on a text that is no ISO
\* text, parse_date may raise, and comparing the naive bounds with an aware
\* datetime raises TypeError; every exception gives False.
WithinRange(range, node_date) ==
  IF node_date.form = "bad" \/ range.raised \/ node_date.form = "Z" THEN FALSE
  ELSE Leq(range.start, node_date.dt) /\ Leq(node_date.dt, range.end)

_date_matches(node_date, target_date, moment) ==
  WithinRange(parse_date(target_date, moment), node_date)

\* float(x) of a text: its value, or ValueError.
IsFloat(x) == strip(x) # <<>> /\ \A k \in 1..Len(strip(x)) : strip(x)[k] \in Digits
Float(x) == NumberValue(strip(x))

\* re.match(r"([<>]=?|~=|=)?(.+)", target_value): the operator and the rest.
\* The operator is given up when nothing would be left for (.+).
OperatorOf(t) ==
  IF Len(t) >= 3 /\ t[1] \in {"<", ">"} /\ t[2] = "=" THEN <<t[1], "=">>
  ELSE IF Len(t) >= 2 /\ t[1] \in {"<", ">"} THEN <<t[1]>>
  ELSE IF Len(t) >= 3 /\ t[1] = "~" /\ t[2] = "=" THEN <<"~", "=">>
  ELSE IF Len(t) >= 2 /\ t[1] = "=" THEN <<"=">>
  ELSE <<>>

Compare(operator, a, b) ==
  CASE operator = <<">">> -> a > b
    [] operator = <<"<">> -> a < b
    [] operator = <<">", "=">> -> a >= b
    [] OTHER -> a <= b

Comparisons == {<<">">>, <<"<">>, <<">", "=">>, <<"<", "=">>}

Answer(value) == [raised |-> FALSE, value |-> value]

\* Lines 277-318 without the try blocks of lines 299-318.
_value_matches_unguarded(node_value, target_value) ==
  LET operator == OperatorOf(target_value)
      val == strip(From(target_value, Len(operator) + 1)) IN
  IF node_value = None THEN Answer(FALSE)
  ELSE IF target_value = <<>> THEN Answer(LowerText(node_value) = <<>>)
  ELSE IF operator = <<"~", "=">>
  THEN Answer(Contains(LowerText(node_value), LowerText(val)))
  ELSE IF operator \in Comparisons
  THEN IF IsFloat(node_value) /\ IsFloat(val)
       THEN Answer(Compare(operator, Float(node_value), Float(val)))
       ELSE [raised |-> TRUE, value |-> FALSE]
  ELSE IF operator = <<"=">> THEN Answer(LowerText(node_value) = LowerText(val))
  ELSE Answer(LowerText(node_value) = LowerText(target_value))

\* Lines 277-318, for a target_value that is a str: what the call returns,
\* or that it raises.
_value_matches(node_value, target_value) ==
  LET operator == OperatorOf(target_value)
      val == strip(From(target_value, Len(operator) + 1)) IN
  IF node_value = None THEN Answer(FALSE)
  ELSE IF target_value = <<>> THEN Answer(LowerText(node_value) = <<>>)
  ELSE IF operator = <<"~", "=">>
  THEN Answer(Contains(LowerText(node_value), LowerText(val)))
  ELSE IF operator \in Comparisons
  THEN IF IsFloat(node_value) /\ IsFloat(val)
       THEN Answer(Compare(operator, Float(node_value), Float(val)))
       ELSE Answer(FALSE)
  ELSE IF operator = <<"=">> THEN Answer(LowerText(node_value) = LowerText(val))
  ELSE Answer(LowerText(node_value) = LowerText(target_value))

\* A node of the index: its metadata, as process_file and the metadata
\* extractor wrote it.
Node(id, category, created, modified, duration) ==
  [id |-> id, file_type_category |-> category, created_time |-> created,
   modified_time |-> modified, duration |-> duration]

\* The index the query engine reads. The times are Drive's createdTime and
\* modifiedTime, which are in the UTC form; only the extractors of video and
\* audio files write a duration.
IndexNodes ==
  <<Node("n1", "image", Timestamp("Z", DateTime(2025, 7, 12, 36000)),
         Timestamp("Z", DateTime(2025, 7, 12, 36000)), None),
    Node("n2", "document", Timestamp("Z", DateTime(2025, 7, 5, 0)),
         Timestamp("Z", DateTime(2025, 7, 6, 0)), None),
    Node("n3", "video", Timestamp("Z", DateTime(2025, 7, 20, 0)),
         Timestamp("Z", DateTime(2025, 7, 20, 0)), <<"1", "2">>)>>

\* node.metadata.get(key) for a key of FILTERING_METADATA: the text of the
\* field, or None. A timestamp is a text that is no number.
MetadataGet(node, key) ==
  CASE key = "duration" -> node.duration
    [] key = "created_time" ->
         IF node.created_time.form = "none" THEN None ELSE <<"T", node.created_time.form>>
    [] key = "modified_time" ->
         IF node.modified_time.form = "none" THEN None ELSE <<"T", node.modified_time.form>>
    [] OTHER -> None

\* Lines 205-216: the key "date" is matched against the node's created or
\* else modified time, a key of FILTERING_METADATA against the node's field,
\* and any other key is passed over.
MatchesFilter(node, key, value, moment) ==
  IF key = "date"
  THEN LET node_date == IF node.created_time.form # "none" THEN node.created_time
                        ELSE node.modified_time IN
       node_date.form # "none" /\ _date_matches(node_date, value, moment)
  ELSE IF key \in {FILTERING_METADATA[k] : k \in 1..Len(FILTERING_METADATA)}
  THEN _value_matches(MetadataGet(node, key), value).value
  ELSE TRUE

_matches_filters(node, filters, moment) ==
  \A key \in FilterKeys :
    filters[key] # NoValue => MatchesFilter(node, key, filters[key], moment)

\* ---------------------------------------- the query engine: the retrieval
\* Scores are in hundredths.
Hit(n, score) == [node |-> n, score |-> score]

\* sorted(nodes, key=lambda x: x.score or 0, reverse=True): a stable sort.
RECURSIVE InsertByScore(_, _)
InsertByScore(h, sorted) ==
  IF sorted = <<>> THEN <<h>>
  ELSE IF Head(sorted).score >= h.score THEN <<Head(sorted)>> \o InsertByScore(h, Tail(sorted))
  ELSE <<h>> \o sorted

RECURSIVE SortedByScore(_)
SortedByScore(nodes) ==
  IF nodes = <<>> THEN <<>>
  ELSE With(SortedByScore(SubSeq(nodes, 1, Len(nodes) - 1)),
            LAMBDA rest : InsertByScore(nodes[Len(nodes)], rest))

\* Lines 233-266 without the dynamic threshold of lines 255-258.
_filter_by_relevance_static(nodes, threshold) ==
  SelectSeq(SortedByScore(nodes), LAMBDA h : h.score >= threshold)

\* Lines 233-266, with the engine's threshold: one hit is kept when it
\* reaches the threshold; of several, those that reach
\* max(threshold, 0.7 * the average of the two best scores).
_filter_by_relevance(nodes, threshold) ==
  LET sorted_nodes == SortedByScore(nodes) IN
  IF nodes = <<>> THEN <<>>
  ELSE IF Len(sorted_nodes) = 1
  THEN (IF sorted_nodes[1].score >= threshold THEN sorted_nodes ELSE <<>>)
  ELSE LET top_sum == sorted_nodes[1].score + sorted_nodes[2].score IN
       SelectSeq(sorted_nodes,
                 LAMBDA h : 20 * h.score >= 20 * threshold /\ 20 * h.score >= 7 * top_sum)

\* Lines 218-231.
_apply_metadata_filters(nodes, filters, moment) ==
  IF filters = NoFilters THEN nodes
  ELSE SelectSeq(nodes, LAMBDA h : _matches_filters(IndexNodes[h.node], filters, moment))

\* Lines 198-203: the scan over index.docstore.docs, taken to hold the nodes
\* of the index; the nodes it returns have no score.
NoScore == 0
_metadata_only_search(filters, moment) ==
  LET all == [k \in 1..Len(IndexNodes) |-> Hit(k, NoScore)] IN
  SelectSeq(all, LAMBDA h : _matches_filters(IndexNodes[h.node], filters, moment))

\* ------------------------------------------ the query engine: hybrid_query
\* The phrases the questions are made of.
Phrases ==
  <<<<"cats">>,
    <<"photos">>,
    <<"audio", "book">>,
    <<"spread", "sheets">>,
    <<"after", Space, "July", Space, "1">>,
    <<"After", Space, "July", Space, "1", "0">>,
    <<"after", Space, "July", Space, "2", "0", "2", "4">>,
    <<"after", Space, "Banana", Space, "1", "0">>,
    <<"between", Space, "January", Space, "and", Space, "March", Space, "2", "0", "2", "4">>,
    <<"between", Space, "January", Space, "1", Space, "and", Space, "March", Space, "3",
      Space, "2", "0", "2", "4">>,
    <<"yesterday">>,
    <<"last", Space, "week">>,
    <<"duration", ":", Space, ">", "5">>,
    <<"duration", ":">>>>

\* " ".join(phrases)
RECURSIVE JoinPhrases(_)
JoinPhrases(ps) ==
  IF ps = <<>> THEN <<>>
  ELSE IF Len(ps) = 1 THEN Phrases[ps[1]]
  ELSE Phrases[ps[1]] \o <<Space>> \o JoinPhrases(Tail(ps))

\* The lists of n phrases, by their places in Phrases.
PhraseLists(n) == IF n = 0 THEN {<<>>} ELSE [1..n -> 1..Len(Phrases)]

\* The questions: up to MaxPhrases phrases with a space between them.
Questions == {JoinPhrases(ps) : ps \in UNION {PhraseLists(n) : n \in 0..MaxPhrases}}

\* The moments a question is asked at.
Moments == {DateTime(2025, 8, 31, 43200), DateTime(2026, 3, 1, 0)}

\* What retriever.retrieve may return: some nodes of the index with their
\* scores, the best first, at most top_k of them.
ScoreLevels == {60, 90}
HitLists ==
  {LET found == SelectSeq([k \in 1..Len(IndexNodes) |-> Hit(k, a[k])],
                          LAMBDA h : h.score # NoScore)
       best == SortedByScore(found) IN
   SubSeq(best, 1, Min(top_k, Len(best))) :
     a \in [1..Len(IndexNodes) -> {NoScore} \cup ScoreLevels]}

\* The metadata filters applied before the relevance filter.
SemanticResult_filtersFirst(nodes, filters, moment, threshold) ==
  _filter_by_relevance(_apply_metadata_filters(nodes, filters, moment), threshold)

\* The thresholds an engine may be made with: a low floor, and the default.
Floors == {30, similarity_threshold}

\* Lines 181-196, from the hits of the retriever on: the relevance filter,
\* then the metadata filters.
SemanticResult(nodes, filters, moment, threshold) ==
  _apply_metadata_filters(_filter_by_relevance(nodes, threshold), filters, moment)

\* Line 169: the plan of the question.
ExtractFilters ==
  /\ qpc = "asked"
  /\ LET plan == _extract_metadata_filters(query_text) IN
     /\ cleaned_query' = plan.cleaned
     /\ extracted_filters' = plan.filters
  /\ qpc' = "planned"
  /\ UNCHANGED <<query_text, now, hits, result, cmp, engine_threshold, answer, llm_calls>>
  /\ UNCHANGED ivars

\* Lines 178-179: nothing is left of the question, so the index is scanned.
MetadataOnlySearch ==
  /\ qpc = "planned"
  /\ strip(cleaned_query) = <<>>
  /\ result' = _metadata_only_search(extracted_filters, now)
  /\ qpc' = "done"
  /\ UNCHANGED <<query_text, now, hits, cleaned_query, extracted_filters, cmp,
                 engine_threshold, answer, llm_calls>>
  /\ UNCHANGED ivars

\* Lines 181-196: retrieval, relevance filter, metadata filters.
SemanticSearch ==
  /\ qpc = "planned"
  /\ strip(cleaned_query) # <<>>
  /\ \E nodes \in HitLists :
       /\ hits' = nodes
       /\ result' = SemanticResult(nodes, extracted_filters, now, engine_threshold)
  /\ qpc' = "done"
  /\ UNCHANGED <<query_text, now, cleaned_query, extracted_filters, cmp,
                 engine_threshold, answer, llm_calls>>
  /\ UNCHANGED ivars

\* A question is asked of hybrid_query at some moment.
QueryInit ==
  /\ conv = [f \in Files |-> "absent"]
  /\ TypeInit
  /\ query_text \in Questions
  /\ now \in Moments
  /\ hits = <<>>
  /\ qpc = "asked"
  /\ cleaned_query = <<>>
  /\ extracted_filters = NoFilters
  /\ result = <<>>
  /\ cmp = [called |-> FALSE]
  /\ engine_threshold \in Floors
  /\ answer = NoAnswer
  /\ llm_calls = 0

QueryNext == ExtractFilters \/ MetadataOnlySearch \/ SemanticSearch

QuerySpec == QueryInit /\ [][QueryNext]_vars

\* --------------------------------------- the query engine: _value_matches
\* The values a node may hold for a field (None when it has none) and the
\* filter values the comparison is called with: an operator, or none, and
\* an operand.
NodeValues == {None, <<"5">>, <<"1", "2">>, <<"abc">>, <<"1", "2", "abc">>}
Operators == Comparisons \cup {<<>>, <<"=">>, <<"~", "=">>}
Operands == {<<>>, <<"5">>, <<"1", "2">>, <<Space, "5">>, <<"abc">>, <<"5", "abc">>}

\* One call of _value_matches.
ValueMatches ==
  /\ \E node_value \in NodeValues, operator \in Operators, operand \in Operands :
       cmp' = [called |-> TRUE, node_value |-> node_value, operator |-> operator,
               operand |-> operand,
               outcome |-> _value_matches(node_value, operator \o operand)]
  /\ UNCHANGED <<query_text, now, hits, qpc, cleaned_query, extracted_filters, result,
                 engine_threshold, answer, llm_calls>>
  /\ UNCHANGED ivars

ValueInit == conv = [f \in Files |-> "absent"] /\ TypeInit /\ NoQuery

ValueSpec == ValueInit /\ [][ValueMatches]_vars

\* ----------------------------------- the query engine: _filter_by_relevance
\* The hit lists and thresholds the relevance filter is called with: up to
\* MaxHits hits in any order, the k-th hit standing for the k-th node.
Scores == {30, 38, 40, 50, 85, 90}
ScoredLists ==
  UNION {IF n = 0 THEN {<<>>}
         ELSE {[k \in 1..n |-> Hit(k, a[k])] : a \in [1..n -> Scores]} : n \in 0..MaxHits}

\* One call of _filter_by_relevance on what the retriever returned.
FilterByRelevance ==
  /\ qpc = "retrieved"
  /\ result' = _filter_by_relevance(hits, engine_threshold)
  /\ qpc' = "filtered"
  /\ UNCHANGED <<query_text, now, hits, cleaned_query, extracted_filters, cmp,
                 engine_threshold, answer, llm_calls>>
  /\ UNCHANGED ivars

RelevanceInit ==
  /\ conv = [f \in Files |-> "absent"]
  /\ TypeInit
  /\ query_text = <<>>
  /\ now = [y |-> 2025, m |-> 1, d |-> 1, t |-> 0]
  /\ hits \in ScoredLists
  /\ qpc = "retrieved"
  /\ cleaned_query = <<>>
  /\ extracted_filters = NoFilters
  /\ result = <<>>
  /\ cmp = [called |-> FALSE]
  /\ engine_threshold \in Floors
  /\ answer = NoAnswer
  /\ llm_calls = 0

RelevanceSpec == RelevanceInit /\ [][FilterByRelevance]_vars

\* ------------------------------------------------ the query engine: query
\* The fixed answer of lines 340-343, and the outcomes of llm.complete.
NotFoundMessage == "I couldn't find any relevant documents"
Generated == "generated"
LlmError == "llm.complete raised"

\* Lines 333-338: the retriever of the index is asked the question as it
\* was put; the planner's call is commented out (line 323) and the retriever
\* returns its top_k hits whatever their scores.
Retrieve ==
  /\ qpc = "asked"
  /\ hits' \in HitLists
  /\ qpc' = "retrieved"
  /\ UNCHANGED <<query_text, now, cleaned_query, extracted_filters, result, cmp,
                 engine_threshold, answer, llm_calls>>
  /\ UNCHANGED ivars

\* Lines 346-370 reached without the guard of line 340.
NotFound_unguarded ==
  /\ qpc = "retrieved"
  /\ hits = <<>>
  /\ llm_calls' = llm_calls + 1
  /\ answer' = Generated
  /\ result' = <<>>
  /\ qpc' = "done"
  /\ UNCHANGED <<query_text, now, hits, cleaned_query, extracted_filters, cmp,
                 engine_threshold>>
  /\ UNCHANGED ivars

\* Lines 340-344: no hit, so the fixed message and no source.
NotFound ==
  /\ qpc = "retrieved"
  /\ hits = <<>>
  /\ answer' = NotFoundMessage
  /\ result' = <<>>
  /\ qpc' = "done"
  /\ UNCHANGED <<query_text, now, hits, cleaned_query, extracted_filters, cmp,
                 engine_threshold, llm_calls>>
  /\ UNCHANGED ivars

\* Lines 346-370: one call of llm.complete on the prompt made of all hits;
\* the sources are the hits. An exception of the call is not caught.
Complete ==
  /\ qpc = "retrieved"
  /\ hits # <<>>
  /\ llm_calls' = llm_calls + 1
  /\ \/ answer' = Generated /\ result' = hits
     \/ answer' = LlmError /\ result' = <<>>
  /\ qpc' = "done"
  /\ UNCHANGED <<query_text, now, hits, cleaned_query, extracted_filters, cmp,
                 engine_threshold>>
  /\ UNCHANGED ivars

\* A question is asked of query, of the engine app.py makes (line 61).
AnswerInit ==
  /\ conv = [f \in Files |-> "absent"]
  /\ TypeInit
  /\ query_text \in Questions
  /\ now \in Moments
  /\ hits = <<>>
  /\ qpc = "asked"
  /\ cleaned_query = <<>>
  /\ extracted_filters = NoFilters
  /\ result = <<>>
  /\ cmp = [called |-> FALSE]
  /\ engine_threshold = similarity_threshold
  /\ answer = NoAnswer
  /\ llm_calls = 0

AnswerNext == Retrieve \/ NotFound \/ Complete

AnswerSpec == AnswerInit /\ [][AnswerNext]_vars

\* ------------------------------------------------------------------ claims
FilesIn(folder_id) == {f \in Files : InFolder(f, folder_id)}
Elems(seq) == {seq[k] : k \in 1..Len(seq)}
FailedNames(failed_files) == {x.name : x \in Elems(failed_files)}
DocFiles(documents) == {d.file : d \in Elems(documents)}
CollaboratorErrors == {DriveError, PipelineError}
Registered(folder_id) ==
  \E r \in registry :
    r.folder_id = folder_id /\ r.absolute_path = get_absolute_path_id(folder_id)
\* The Nodes of the scope of a canonical path.
ScopeNodes(nodes, absolute_id_path) == {n \in nodes : n.path = absolute_id_path}

\* C1 (as claimed): when converting a file of the ingested folder raises, the
\* ingest is not aborted by it: it reports success, its failure list names the
\* file, every other file of the folder that converts has its Nodes in the
\* folder's scope, and the scope is registered.
C1_RaisingFileDoesNotAbort ==
  \A p \in ConcProcs :
    LET out == resp[p] IN
    (/\ out.op = "ingest"
     /\ out.detail \notin CollaboratorErrors
     /\ \E f \in FilesIn(out.folder) : conv[f] = "badmeta")
    => /\ out.status = "success"
       /\ \A f \in FilesIn(out.folder) :
            conv[f] = "badmeta" => Name(f) \in FailedNames(out.failed)
       /\ \A g \in FilesIn(out.folder) :
            conv[g] \in {"text", "dlfail"} =>
              \E n \in ScopeNodes(vstore, get_absolute_path_id(out.folder)) : n.file = g
       /\ Registered(out.folder)

\* The folder holds N >= 1 files, the download of exactly one of them fails
\* and the others convert.
OneDownloadFails(folder_id) ==
  /\ Cardinality({f \in FilesIn(folder_id) : conv[f] = "dlfail"}) = 1
  /\ \A f \in FilesIn(folder_id) : conv[f] \in {"text", "dlfail"}

PastLoop(fr) == fr.pc \in {"index", "pipeline", "registry", "subs"}

C3_EmptyFolderRegistered ==
  \A p \in ConcProcs :
    (/\ resp[p].op = "ingest"
     /\ resp[p].status = "success"
     /\ get_files_from_drive(resp[p].folder) = <<>>)
    => Registered(resp[p].folder)

\* C4 (as claimed): an ingest of a folder whose listing is not empty but gives
\* no Document raises no error and registers the folder.
C4_NoDocumentsStillRegistered ==
  \A p \in ConcProcs :
    (/\ resp[p].op = "ingest"
     /\ resp[p].detail \notin CollaboratorErrors
     /\ get_files_from_drive(resp[p].folder) # <<>>
     /\ \A f \in FilesIn(resp[p].folder) : conv[f] \in {"nodocs", "badmeta"})
    => /\ resp[p].status = "success"
       /\ Registered(resp[p].folder)

\* C5 (as claimed): a second successful ingest of the same, unchanged folder
\* leaves the same Nodes (count and content) as the first.
C5_ReingestAddsNoNodes ==
  \A k \in 1..(Len(log) - 1) :
    (/\ log[k].folder = log[k + 1].folder
     /\ log[k].status = "success"
     /\ log[k + 1].status = "success")
    => log[k].content = log[k + 1].content

\* A process is inside the writes of create_index for a canonical path.
Building(p, absolute_id_path) ==
  /\ stack[p] # <<>>
  /\ Top(p).pc = "pipeline" \/ (Top(p).pc = "registry" /\ Top(p).meta.bound)
  /\ Top(p).path = absolute_id_path

\* C6 (as claimed): at most one builder is active per canonical path.
C6_OneBuilderPerPath ==
  \A p, q \in ConcProcs :
    (p # q /\ stack[p] # <<>> /\ Building(p, Top(p).path)) => ~Building(q, Top(p).path)

\* C7 (as claimed): what is visible when a query runs, the Nodes it reads and
\* the registry of that moment, is a complete version of the index: the one
\* before a build or the one after it.
C7_QuerySeesCompleteVersion ==
  (rd.op = "query" /\ rd.outcome = "ok")
  => \E s \in snapshots :
       /\ rd.nodes = {n \in s.nodes : n.coll = rd.key}
       /\ rd.records = s.records

\* C8 (as claimed): the index of every registered scope is found both by its
\* canonical path and by its leaf folder id.
C8_ResolvableByPathAndLeaf ==
  \A r \in registry :
    LET scope == ScopeNodes(vstore, r.absolute_path) IN
    /\ scope \subseteq get_index(r.absolute_path)
    /\ scope \subseteq get_index(<<r.folder_id>>)

\* C9 (as claimed): a lookup whose load fails ends with NotFound and the
\* registry entry of the key evicted; the exception does not reach the caller.
C9_LoadFailureGivesNotFound ==
  (rd.op = "query" /\ rd.outcome # "ok")
  => /\ rd.outcome = "NotFound"
     /\ ~\E r \in rd.records : <<r.folder_id>> = rd.key \/ r.absolute_path = rd.key

\* C10 (as claimed): delete on a registered folder removes its registry entry
\* and returns a boolean telling that an entry was deleted.
C10_DeleteRemovesEntry ==
  (rd.op = "delete" /\ \E r \in rd.before : <<r.folder_id>> = rd.key)
  => /\ rd.outcome = "True"
     /\ ~\E r \in rd.records : <<r.folder_id>> = rd.key

\* C11: an ingest that ends in its first step, the listing of the target
\* folder, has changed no registry record and no Node; when the folder has
\* children it can only end there by the listing's failure, and then the
\* client gets the error whose detail states the cause.
C11_ListingFailureAborts ==
  [][\A p \in Procs :
       /\ (stack[p] = <<>> /\ stack'[p] # <<>>) => registry' = registry
       /\ (Len(stack[p]) = 1 /\ Top(p).pc = "list" /\ stack'[p] = <<>>)
          => /\ registry' = registry
             /\ vstore' = vstore
             /\ resp'[p].status = "error" => resp'[p].detail = DriveError
             /\ get_files_from_drive(Top(p).folder) # <<>>
                  => resp'[p].status = "error"]_vars

\* C11 witness: after an ingest that registered a scope, another ingest has
\* failed at its listing and the record is still there.
C11_Witness ==
  \E p \in Procs :
    /\ resp[p].op = "ingest"
    /\ resp[p].status = "error"
    /\ resp[p].detail = DriveError
    /\ Len(log) = 2
    /\ registry # {}

\* C12 (as claimed): the failure list is combined over the subtree. When the
\* call for a subfolder ends, by returning or by raising, every failure it
\* recorded is in its caller's failure list, and the outermost call returns
\* the list it has accumulated.
C12_FailureListCoversSubtree ==
  [][\A p \in Procs :
       /\ (Len(stack[p]) >= 2 /\ Len(stack'[p]) = Len(stack[p]) - 1)
          => Elems(Top(p).failed) \subseteq Elems(stack'[p][Len(stack'[p])].failed)
       /\ (Len(stack[p]) = 1 /\ stack'[p] = <<>> /\ resp'[p].status = "success")
          => Elems(Top(p).failed) \subseteq Elems(resp'[p].failed)]_vars

\* The pipeline of the frame's build has run to its end.
Built(fr) == (fr.pc = "registry" /\ fr.meta.bound) \/ fr.pc = "subs"

\* The Documents of a list that come from file f.
DocsOf(documents, f) == {j \in 1..Len(documents) : documents[j].file = f}

\* C13: for a file whose conversion fails inside process_file's try block,
\* process_file does not raise (no failure entry) and gives exactly one
\* Document, which carries `error`; index_folder hands it to create_index, and
\* once the pipeline has run the failure is a Node of the folder's scope.
C13_ConversionFailureIsIndexed ==
  \A p \in ConcProcs : \A k \in 1..Len(stack[p]) :
    LET fr == stack[p][k] IN
    \A f \in FilesIn(fr.folder) :
      (PastLoop(fr) /\ conv[f] = "dlfail")
      => /\ Cardinality(DocsOf(fr.documents, f)) = 1
         /\ \A j \in DocsOf(fr.documents, f) : fr.documents[j].err
         /\ Name(f) \notin FailedNames(fr.failed)
         /\ Built(fr) =>
              \E n \in ScopeNodes(get_index(RootId(fr.path)), fr.path) :
                n.file = f /\ n.err

\* C13 witness: a build whose Documents include a placeholder has run, next
\* to a Document of a file that converted.
C13_Witness ==
  \E p \in Procs :
    /\ At(p, "subs")
    /\ \E f, g \in FilesIn(Top(p).folder) : conv[f] = "dlfail" /\ conv[g] = "text"
    /\ \E n \in vstore : n.err

\* The patterns the planner searches in the question.
PlannerPatterns ==
  {date_patterns[k] : k \in 1..Len(date_patterns)}
    \cup ({FILTERING_METADATA[k] : k \in 1..Len(FILTERING_METADATA)}
            \ {"created_time", "modified_time"})

\* The matches of a pattern in the question.
MatchesOf(pattern, question) ==
  LET ms == finditer(pattern, question, 1) IN {ms[k] : k \in 1..Len(ms)}

\* The places of the question that lie in a phrase a pattern matched.
MatchedPlaces(question) ==
  UNION {UNION {m.start..(m.end - 1) : m \in MatchesOf(pattern, question)} :
           pattern \in PlannerPatterns}

\* The words of a text, its spaces left out.
WordsOf(s) == SelectSeq(s, LAMBDA a : a # Space)

\* The words of the question outside every matched phrase, in their order.
RECURSIVE UnmatchedWords(_, _)
UnmatchedWords(question, k) ==
  IF k > Len(question) THEN <<>>
  ELSE IF question[k] = Space \/ k \in MatchedPlaces(question)
  THEN UnmatchedWords(question, k + 1)
  ELSE <<question[k]>> \o UnmatchedWords(question, k + 1)

\* Whether a is b with some elements left out.
RECURSIVE IsSubsequence(_, _)
IsSubsequence(a, b) ==
  IF a = <<>> THEN TRUE
  ELSE IF b = <<>> THEN FALSE
  ELSE IF Head(a) = Head(b) THEN IsSubsequence(Tail(a), Tail(b))
  ELSE IsSubsequence(a, Tail(b))

\* C14: after the plan of a question, the cleaned query holds none of the
\* phrases that produced a filter: no matched temporal phrase and no matched
\* `field: value` phrase stands in it, nothing of them is left in it (its
\* words are words of the question outside the matched phrases), and no
\* file-type keyword stands in it.
C14_MatchedPhrasesRemoved ==
  qpc # "asked" =>
    /\ \A pattern \in PlannerPatterns :
         \A m \in MatchesOf(pattern, query_text) : ~Contains(cleaned_query, m.group0)
    /\ IsSubsequence(WordsOf(cleaned_query), UnmatchedWords(query_text, 1))
    /\ \A k \in 1..Len(keyword_map) :
         ~Contains(LowerText(cleaned_query), keyword_map[k].word)

\* The file-type categories of the keywords that stand in a text.
KeywordCategories(s) ==
  {<<keyword_map[k].file_type>> :
     k \in {j \in 1..Len(keyword_map) : Contains(LowerText(s), keyword_map[j].word)}}

\* The metadata of the nodes a retrieval returned.
Returned == {IndexNodes[result[k].node] : k \in 1..Len(result)}

\* C15: when a file-type keyword stands in the question (outside the temporal
\* and `field: value` phrases), the plan has a file-type filter with the
\* category of a keyword of the question, and every node the retrieval
\* returns has the category of the filter.
C15_KeywordFiltersFileType ==
  /\ (qpc # "asked" /\ KeywordCategories(query_text) # {}
        /\ MatchedPlaces(query_text) = {})
       => extracted_filters["file_type"] \in KeywordCategories(query_text)
  /\ (qpc = "done" /\ extracted_filters["file_type"] # NoValue)
       => \A node \in Returned : <<node.file_type_category>> = extracted_filters["file_type"]

\* The phrase "after July 10", lowered.
AfterJuly10 == <<"after", Space, "july", Space, "1", "0">>

\* C16: asked in 2025, the phrase "after July 10" yields a date filter whose
\* interval starts at 2025-07-10T00:00:00 and ends at the maximum date.
C16_AfterJuly10In2025 ==
  (qpc # "asked" /\ now.y = 2025) =>
    /\ LowerText(query_text) = AfterJuly10
         => LowerText(extracted_filters["date"]) = AfterJuly10
    /\ LowerText(extracted_filters["date"]) = AfterJuly10
         => parse_date(extracted_filters["date"], now)
              = Interval(DateTime(2025, 7, 10, 0), datetime_max)

C16_Witness ==
  /\ qpc = "planned"
  /\ now.y = 2025
  /\ LowerText(query_text) = AfterJuly10
  /\ LowerText(extracted_filters["date"]) = AfterJuly10

\* The phrase "between January and March 2024", lowered.
BetweenJanuaryAndMarch ==
  <<"between", Space, "january", Space, "and", Space, "march", Space, "2", "0", "2", "4">>

\* C17: the phrase "between January and March 2024" yields a date filter
\* whose interval runs from 2024-01-01 to 2024-03-01.
C17_BetweenJanuaryAndMarch ==
  (qpc # "asked" /\ LowerText(query_text) = BetweenJanuaryAndMarch) =>
    /\ extracted_filters["date"] # NoValue
    /\ parse_date(extracted_filters["date"], now)
         = Interval(DateTime(2024, 1, 1, 0), DateTime(2024, 3, 1, 0))

\* The filters but for the date filter.
WithoutDate(filters) == [filters EXCEPT !["date"] = NoValue]

\* What hybrid_query returns for the plan of the state and the hits of the
\* retriever, with the filters given.
ResultWith(filters) ==
  IF strip(cleaned_query) = <<>> THEN _metadata_only_search(filters, now)
  ELSE SemanticResult(hits, filters, now, engine_threshold)

\* C18: when the text of the date filter cannot be parsed as a date, only
\* that filter is dropped: the retrieval returns the nodes it returns
\* without the date filter.
C18_UnparseableDateDropped ==
  (/\ qpc = "done"
   /\ extracted_filters["date"] # NoValue
   /\ parse_date(extracted_filters["date"], now).raised)
    => result = ResultWith(WithoutDate(extracted_filters))

\* C19: a comparison with >, <, >= or <= returns false and does not raise
\* when the stored value or the operand is no number, and when the node has
\* no value for the field.
C19_ComparisonNeverRaises ==
  (/\ cmp.called
   /\ cmp.operator \in Comparisons
   /\ cmp.operand # <<>>
   /\ \/ cmp.node_value = None
      \/ ~IsFloat(cmp.node_value)
      \/ ~IsFloat(cmp.operand))
    => ~cmp.outcome.raised /\ ~cmp.outcome.value

C19_Witness ==
  /\ cmp.called
  /\ cmp.operator = <<">", "=">>
  /\ cmp.node_value = <<"abc">>
  /\ cmp.operand = <<"5">>
  /\ cmp.outcome = Answer(FALSE)

\* Whether a node matches all of the filters: the filters _matches_filters
\* looks at, and the file-type filter against the node's category.
MatchesAllFilters(node, filters) ==
  /\ _matches_filters(node, filters, now)
  /\ filters["file_type"] # NoValue => <<node.file_type_category>> = filters["file_type"]

\* C20: when nothing is left of the question after the plan, no semantic
\* retrieval is made and exactly the nodes of the index that match all of the
\* filters are returned.
C20_MetadataOnlyScan ==
  (qpc = "done" /\ strip(cleaned_query) = <<>>) =>
    /\ hits = <<>>
    /\ {result[k].node : k \in 1..Len(result)}
         = {k \in 1..Len(IndexNodes) : MatchesAllFilters(IndexNodes[k], extracted_filters)}

\* The sum of the two highest scores of a hit list of two or more hits.
PairSums(nodes) ==
  {nodes[p[1]].score + nodes[p[2]].score :
     p \in {q \in (1..Len(nodes)) \X (1..Len(nodes)) : q[1] # q[2]}}

TopTwoSum(nodes) == CHOOSE t \in PairSums(nodes) : \A u \in PairSums(nodes) : u <= t

\* The scores of a hit list, in its order.
ScoresOf(nodes) == IF nodes = <<>> THEN <<>> ELSE [k \in 1..Len(nodes) |-> nodes[k].score]

\* C21: of two or more hits, the relevance filter keeps exactly those whose
\* score is at least max(floor, 0.7 * the average of the two highest scores);
\* in hundredths, score >= floor and 20 * score >= 7 * (sum of the two highest).
C21_DynamicThreshold ==
  (qpc = "filtered" /\ Len(hits) >= 2) =>
    /\ {result[k].node : k \in 1..Len(result)}
         = {k \in 1..Len(hits) :
              /\ hits[k].score >= engine_threshold
              /\ 20 * hits[k].score >= 7 * TopTwoSum(hits)}
    /\ \A k \in 1..Len(result) : result[k] = hits[result[k].node]
    /\ (ScoresOf(hits) = <<40, 38>> /\ engine_threshold = 30)
         => ScoresOf(result) = <<40, 38>>

C21_Witness ==
  /\ qpc = "filtered"
  /\ engine_threshold = 30
  /\ ScoresOf(hits) = <<90, 85, 50, 30>>
  /\ ScoresOf(result) = <<90, 85>>

\* Whether a score reaches the effective threshold of a hit list.
ReachesThreshold(score, nodes, floor) ==
  /\ score >= floor
  /\ Len(nodes) >= 2 => 20 * score >= 7 * TopTwoSum(nodes)

\* C22: on the semantic path every returned node is a hit of the retriever
\* whose score reaches the effective threshold of the unfiltered hit list,
\* in the order of the relevance filter: the metadata filters only remove
\* hits, they re-admit none that the relevance filter discarded.
C22_RelevanceBeforeMetadata ==
  (qpc = "done" /\ strip(cleaned_query) # <<>>) =>
    /\ \A k \in 1..Len(result) :
         /\ \E j \in 1..Len(hits) : hits[j] = result[k]
         /\ ReachesThreshold(result[k].score, hits, engine_threshold)
    /\ IsSubsequence(result, _filter_by_relevance(hits, engine_threshold))

\* Two hits that fail the duration filter lift the threshold above the score
\* of the third, which passes the filter and is discarded all the same.
C22_Witness ==
  /\ qpc = "done"
  /\ strip(cleaned_query) # <<>>
  /\ engine_threshold = 30
  /\ extracted_filters["duration"] # NoValue
  /\ hits = <<Hit(1, 90), Hit(2, 90), Hit(3, 60)>>
  /\ result = <<>>

\* C23: when the retrieval returns no node, query returns the fixed
\* not-found message with no source and calls the generation collaborator
\* not at all; when it returns a node, the collaborator is called once.
C23_EmptyContextGuard ==
  qpc = "done" =>
    /\ hits = <<>> => (answer = NotFoundMessage /\ result = <<>> /\ llm_calls = 0)
    /\ hits # <<>> => llm_calls = 1

C23_Witness ==
  /\ qpc = "done"
  /\ hits = <<>>
  /\ query_text # <<>>
  /\ answer = NotFoundMessage
  /\ llm_calls = 0

\* C24: query follows the planner, the hybrid retriever and the synthesizer:
\* every source it returns matches all of the filters the planner extracts
\* from the question and has a score that reaches the effective relevance
\* threshold of the query's hits.
C24_QueryFollowsReadPath ==
  (qpc = "done" /\ answer = Generated) =>
    \A k \in 1..Len(result) :
      /\ MatchesAllFilters(IndexNodes[result[k].node],
                           _extract_metadata_filters(query_text).filters)
      /\ ReachesThreshold(result[k].score, hits, engine_threshold)

\* The folders of the subtree of a folder, the folder included.
RECURSIVE IsWithin(_, _)
IsWithin(g, folder_id) ==
  \/ g = folder_id
  \/ Parents(g) # NoFolder /\ IsWithin(Parents(g), folder_id)

Subtree(folder_id) == {g \in Folders : IsWithin(g, folder_id)}

\* The canonical path of a folder: its parent's path followed by its own id.
RECURSIVE CanonicalPath(_)
CanonicalPath(g) ==
  IF Parents(g) = NoFolder THEN <<Slash, g>>
  ELSE CanonicalPath(Parents(g)) \o <<Slash, g>>

\* Every folder of the Drive holds a file that converts, and no file fails.
CleanDrive ==
  /\ \A f \in Files : conv[f] \in {"absent", "text"}
  /\ \A g \in Folders : \E f \in FilesIn(g) : conv[f] = "text"

\* The builds that the ingests answered so far are to have run: one for each
\* folder of the subtree of each ingested folder.
RECURSIVE BuildsDue(_)
BuildsDue(answers) ==
  IF answers = <<>> THEN 0
  ELSE Cardinality(Subtree(Head(answers).folder)) + BuildsDue(Tail(answers))

\* C25: when every folder holds a file that converts and nothing fails, an
\* ingest of a folder builds the scope of every folder of its subtree exactly
\* once, at any depth, and each scope is registered under the canonical path
\* of its folder: the parent's path followed by the folder id.
C25_OneBuildPerSubtreeFolder ==
  \A p \in Procs :
    (CleanDrive /\ stack[p] = <<>> /\ resp[p].op = "ingest") =>
      /\ resp[p].status = "success"
      /\ \A g \in Subtree(resp[p].folder) :
           /\ Cardinality({r \in registry : r.folder_id = g}) = 1
           /\ \A r \in registry : r.folder_id = g => r.absolute_path = CanonicalPath(g)
      /\ clock = 1 + BuildsDue(log)

C25_Witness ==
  /\ CleanDrive
  /\ stack[1] = <<>>
  /\ resp[1].op = "ingest" /\ resp[1].folder = "r" /\ resp[1].status = "success"
  /\ \E r \in registry : r.folder_id = "B" /\ r.absolute_path = <<Slash, "r", Slash, "A", Slash, "B">>
  /\ clock = 4

\* The files of the subtree of a folder whose conversion is not recorded as a
\* failure: process_file returns a Document for them.
ConvertedBelow(folder_id) ==
  {f \in Files : IsWithin(Home(f), folder_id) /\ conv[f] \in {"text", "dlfail"}}

\* C26: the total returned by an ingest of a folder is the number of files of
\* the whole subtree whose conversion is not recorded as a failure; subfolder
\* entries and failed files are not counted and the subfolders' counts are
\* summed into the one total.
C26_TotalCountsSubtree ==
  \A p \in Procs :
    (stack[p] = <<>> /\ resp[p].op = "ingest" /\ resp[p].status = "success") =>
      resp[p].total = Cardinality(ConvertedBelow(resp[p].folder))

\* The date patterns that match somewhere in the question, by their places in
\* date_patterns.
MatchingPatterns(question) ==
  {k \in 1..Len(date_patterns) : finditer(date_patterns[k], question, 1) # <<>>}

\* The filter values that the matches of the first matching pattern give.
FirstPatternValues(question) ==
  LET k == CHOOSE i \in MatchingPatterns(question) :
             \A j \in MatchingPatterns(question) : i <= j IN
  {m.value : m \in Elems(finditer(date_patterns[k], question, 1))}

\* C27: when more than one temporal pattern matches in the question, the date
\* filter of the plan comes from the first of them in the order before/after,
\* between ... and ..., relative term: "after July 10" wins over "last week".
C27_FirstPatternWins ==
  (qpc # "asked" /\ Cardinality(MatchingPatterns(query_text)) > 1) =>
    extracted_filters["date"] \in FirstPatternValues(query_text)

\* t lies in the half-open interval [start, end) of the range.
InHalfOpen(range, t) == Leq(range.start, t) /\ Leq(t, range.end) /\ t # range.end

\* C28: a date filter is the half-open interval [start, end): a node whose
\* created time t, an ISO text that may end in Z, has start <= t < end matches
\* the filter, and a node with t = end or t outside the interval does not.
C28_DateFilterHalfOpen ==
  (/\ qpc # "asked"
   /\ extracted_filters["date"] # NoValue
   /\ ~parse_date(extracted_filters["date"], now).raised)
    => \A k \in 1..Len(IndexNodes) :
         MatchesFilter(IndexNodes[k], "date", extracted_filters["date"], now)
           = InHalfOpen(parse_date(extracted_filters["date"], now),
                        IndexNodes[k].created_time.dt)

\* The records the registry of a root holds for a folder.
RecordsOf(records, root_id, folder_id) ==
  {r \in records : r.coll = root_id /\ r.folder_id = folder_id}

\* Process p is at the end of a build that has run its pipeline.
BuildEnds(p) == At(p, "registry") /\ Top(p).meta.bound /\ stack'[p] # stack[p]

\* C29: after any sequence of builds the registry of a root holds at most one
\* record per folder id, and the record carries the folder id, the canonical
\* path and the time of the most recent successful build of the folder: a
\* build replaces the record of its folder, it never adds a second one, and
\* nothing else changes the registry.
C29_OneRecordPerFolder ==
  [][/\ \A root \in Folders, g \in Folders :
          Cardinality(RecordsOf(registry', <<root>>, g)) <= 1
     /\ \A p \in Procs :
          BuildEnds(p) =>
            RecordsOf(registry', RootId(CanonicalPath(Top(p).folder)), Top(p).folder)
              = {[coll |-> RootId(CanonicalPath(Top(p).folder)),
                  folder_id |-> Top(p).folder,
                  absolute_path |-> CanonicalPath(Top(p).folder),
                  time_indexed |-> clock - 1]}
     /\ (\A p \in Procs : ~BuildEnds(p)) => registry' = registry]_vars

C29_Witness ==
  /\ runs = MaxRuns + 1
  /\ \E r \in registry : r.folder_id = "A" /\ r.time_indexed > 3
  /\ Cardinality(RecordsOf(registry, <<"r">>, "A")) = 1

\* The pipeline of the build that process p is in fails in this step: the
\* call leaves the pipeline by raising.
PipelineFails(p) == At(p, "pipeline") /\ Len(stack'[p]) < Len(stack[p])

\* The build of process p reports its error: to the client from the outermost
\* call, to the calling folder's failure list from a subfolder.
ErrorReported(p) ==
  IF Len(stack[p]) = 1
  THEN resp'[p].status = "error" /\ resp'[p].detail = PipelineError
  ELSE Failure(Top(p).folder, PipelineError) \in Elems(stack'[p][Len(stack'[p])].failed)

\* C30: in a build the registry record is written only after the Nodes are
\* embedded and persisted: a step that changes the registry belongs to a
\* build whose Documents all have their Nodes in the store, and when the
\* pipeline fails the build reports an error and the registry record of the
\* folder is neither created nor changed.
C30_RegistryAfterPersist ==
  [][\A p \in Procs :
       /\ PipelineFails(p) =>
            /\ ErrorReported(p)
            /\ RecordsOf(registry', RootId(Top(p).path), Top(p).folder)
                 = RecordsOf(registry, RootId(Top(p).path), Top(p).folder)
       /\ registry' # registry =>
            /\ At(p, "registry")
            /\ \A k \in 1..Len(Top(p).documents) :
                 \E n \in vstore : n.coll = RootId(Top(p).path) /\ n.doc = Top(p).documents[k].id]_vars

C30_Witness ==
  /\ stack[1] = <<>>
  /\ resp[1].status = "error" /\ resp[1].detail = PipelineError
  /\ runs = MaxRuns + 1
  /\ Cardinality(RecordsOf(registry, <<"r">>, resp[1].folder)) = 1

====
